---- MODULE Spec2Model ----
(***************************************************************************)
(* Model of the reminder subsystem of teams_agent (reminders.py): the      *)
(* SQLite reminder table, save_reminder, fetch_due, mark_sent, the         *)
(* proactive dispatch with its three calling conventions, and the          *)
(* APScheduler interval job `tick` with max_instances = 1.                 *)
(***************************************************************************)
EXTENDS Integers, Sequences, FiniteSets, TLC

(* ------------------------------ bounds --------------------------------- *)
\* last value of the wall clock
MaxTime == 2
\* clock ticks per whole unit of a timestamp (the rest is the fraction)
TicksPerUnit == 2
\* largest due_in_minutes a caller passes
MaxMinutes == 1
\* rows the table can hold in a run (rows already in the file included)
MaxRows == 2
\* rows already in the database file when the process starts
MaxPre == 1
\* job instance slots of the executor that the model keeps track of
NSlots == 2

(* ------------------------- program constants --------------------------- *)
\* max_instances left at two
MaxInstancesTwo == 1 + 1

\* job_defaults max_instances
MaxInstances == 1

Times == 0..MaxTime
\* due times of the rows already in the file
PreTimes == {0}
Texts == {"x"}
\* contents of the conversation_ref column: JSON of a usable reference,
\* JSON that ConversationReference(**data) rejects, bytes that are not JSON
Dests == {"ok", "foreign", "corrupt"}
Slots == 1..NSlots

(* ----------------- timestamps as ISO-8601 text (isoformat) -------------- *)
\* the characters of a timestamp in ASCII order
Alphabet == <<"+", ".", "0", "1", "2", "3", "4", "5", "6", "7", "8", "9">>

Rank(c) == CHOOSE i \in 1..Len(Alphabet) : Alphabet[i] = c

Digit(n) == Alphabet[n + 3]

DigitVal(c) == Rank(c) - 3

\* datetime.isoformat(): zero-padded fixed-width fields, then the fraction
\* only when it is not zero, then the UTC offset
isoformat(t) ==
    LET whole == t \div TicksPerUnit
        frac  == t % TicksPerUnit
    IN  <<Digit(whole \div 10), Digit(whole % 10)>>
        \o (IF frac = 0 THEN <<>> ELSE <<".", Digit(frac)>>)
        \o <<"+">>

\* datetime.fromisoformat()
fromisoformat(s) ==
    LET whole == DigitVal(s[1]) * 10 + DigitVal(s[2])
        frac  == IF s[3] = "." THEN DigitVal(s[4]) ELSE 0
    IN  whole * TicksPerUnit + frac

\* comparison of TEXT values in SQLite (BINARY collation): bytewise, a proper
\* prefix sorts first
RECURSIVE TextLeq(_, _)
TextLeq(a, b) ==
    IF a = <<>> THEN TRUE
    ELSE IF b = <<>> THEN FALSE
    ELSE IF Rank(Head(a)) < Rank(Head(b)) THEN TRUE
    ELSE IF Rank(Head(a)) > Rank(Head(b)) THEN FALSE
    ELSE TextLeq(Tail(a), Tail(b))

(* ------------------------------- state ---------------------------------- *)
VARIABLES
    clock,            \* datetime.now(timezone.utc)
    store,            \* the rows of table reminders
    seq,              \* AUTOINCREMENT: largest id ever assigned
    sched,            \* "new", "running" (after start()), "shutdown"
    cyc,              \* the job instances of tick, one record per slot
    claimsSupported,  \* the adapter has the claims-based entry points
    markReliable,     \* the storage never fails in mark_sent
    ledger,           \* while markReliable: the ids delivered once, and twice
    skipped,          \* a run was skipped since the executing instance began
    call              \* the last call of save_reminder or of a store function

vars == <<clock, store, seq, sched, cyc, claimsSupported,
          markReliable, ledger, skipped, call>>

Status == IF sched = "running" THEN "Running" ELSE "Stopped"

IdleCycle ==
    [pc |-> "idle", now |-> 0, due |-> <<>>, idx |-> 0, snap |-> {},
     err |-> "none", tried |-> <<>>, delivered |-> FALSE, failed |-> {}]

Executing == {s \in Slots : cyc[s].pc # "idle"}

(* --------------------------- reminder store ----------------------------- *)
\* json.loads on the conversation_ref column
JsonLoadsOk(c) == c # "corrupt"

\* ConversationReference(**data)
DictToConvRefOk(c) == c = "ok"

\* the SELECT without its condition on due_at_utc
SelectDueEarly(st, now) == {r \in st : r.sent = 0}

\* the SELECT without its sent=0 condition
SelectDueAnySent(st, now) ==
    {r \in st : TextLeq(r.due_at_utc, isoformat(now))}

\* the SELECT with due_at_utc < ? in place of due_at_utc <= ?
SelectDueStrict(st, now) ==
    {r \in st : /\ r.sent = 0
                /\ TextLeq(r.due_at_utc, isoformat(now))
                /\ r.due_at_utc # isoformat(now)}

\* the rows the SELECT of fetch_due matches
SelectDue(st, now) ==
    {r \in st : r.sent = 0 /\ TextLeq(r.due_at_utc, isoformat(now))}

\* ORDER BY due_at_utc ASC: every order of the rows that is ascending in
\* due_at_utc; the order of rows with equal due_at_utc is not determined
OrderByDue(rows) ==
    LET n == Cardinality(rows)
    IN  {q \in [1..n -> rows] :
            /\ \A i, j \in 1..n : i # j => q[i] # q[j]
            /\ \A i, j \in 1..n : i < j => TextLeq(q[i].due_at_utc, q[j].due_at_utc)}

row_to_reminder(r) ==
    [id |-> r.id, due_at_utc |-> fromisoformat(r.due_at_utc), text |-> r.text,
     conversation_ref |-> r.conversation_ref, sent |-> r.sent]

\* what a call of fetch_due(now) can do: raise sqlite3.Error, raise from
\* json.loads on one of the selected rows, or return the list
fetch_due(st, now) ==
    LET rows == SelectDue(st, now)
    IN  {[kind |-> "raise", err |-> "storage", val |-> <<>>]}
        \cup
        (IF \E r \in rows : ~JsonLoadsOk(r.conversation_ref)
         THEN {[kind |-> "raise", err |-> "decode", val |-> <<>>]}
         ELSE {[kind |-> "return", err |-> "none",
                val |-> [i \in 1..Len(q) |-> row_to_reminder(q[i])]] :
                    q \in OrderByDue(rows)})

\* mark_sent whose UPDATE is never committed
mark_sent_uncommitted(st, id) == {r : r \in st}

\* UPDATE reminders SET sent=1-sent WHERE id=?
mark_sent_toggle(st, id) ==
    {IF r.id = id THEN [r EXCEPT !.sent = 1 - @] ELSE r : r \in st}

\* UPDATE reminders SET sent=1 WHERE id=?
mark_sent(st, id) ==
    {IF r.id = id THEN [r EXCEPT !.sent = 1] ELSE r : r \in st}

(* ------------------------------- Init ----------------------------------- *)
\* init_db keeps the rows of an existing database file
\* the tables of at most n rows with ids 1, 2, ..., due times in T and
\* sent in S
Tables(n, T, S) ==
    LET Cols == [due_at_utc : {isoformat(t) : t \in T}, text : Texts,
                 conversation_ref : Dests, sent : S]
    IN  UNION {{{[id |-> i, due_at_utc |-> f[i].due_at_utc, text |-> f[i].text,
                  conversation_ref |-> f[i].conversation_ref,
                  sent |-> f[i].sent] : i \in 1..k} : f \in [1..k -> Cols]} :
               k \in 0..n}

\* the rows an earlier run left unsent
PreStores == Tables(MaxPre, PreTimes, {0})

NoCall == [op |-> "none"]

NoDelivery == [once |-> {}, twice |-> {}]

Init ==
    /\ clock = 0
    /\ store \in PreStores
    /\ seq = Cardinality(store)
    /\ sched = "new"
    /\ cyc = [s \in Slots |-> IdleCycle]
    /\ claimsSupported \in BOOLEAN
    /\ markReliable \in BOOLEAN
    /\ ledger = NoDelivery
    /\ skipped = FALSE
    /\ call = NoCall

(* ------------------------------ actions --------------------------------- *)
AdvanceClock ==
    /\ clock < MaxTime
    /\ clock' = clock + 1
    /\ UNCHANGED <<store, seq, sched, cyc, claimsSupported,
                   markReliable, ledger, skipped, call>>

\* _on_startup: scheduler.start()
OnStartup ==
    /\ sched = "new"
    /\ sched' = "running"
    /\ UNCHANGED <<clock, store, seq, cyc, claimsSupported,
                   markReliable, ledger, skipped, call>>

\* a shutdown that drops the running instances
OnCleanupDrop ==
    /\ sched = "running"
    /\ sched' = "shutdown"
    /\ cyc' = [s \in Slots |-> IdleCycle]
    /\ UNCHANGED <<clock, store, seq, claimsSupported,
                   markReliable, ledger, skipped, call>>

\* _on_cleanup: scheduler.shutdown(wait=False)
OnCleanup ==
    /\ sched = "running"
    /\ sched' = "shutdown"
    /\ UNCHANGED <<clock, store, seq, cyc, claimsSupported,
                   markReliable, ledger, skipped, call>>

\* save_reminder that hands out the last id again
save_reminder_reuse(due_in_minutes, text) ==
    /\ sched = "running"
    /\ Cardinality(store) < MaxRows
    /\ clock + due_in_minutes * TicksPerUnit <= MaxTime
    /\ LET due_at == clock + due_in_minutes * TicksPerUnit
           id     == IF seq = 0 THEN 1 ELSE seq
       IN  /\ store' = store \cup
                 {[id |-> id, due_at_utc |-> isoformat(due_at), text |-> text,
                   conversation_ref |-> "ok", sent |-> 0]}
           /\ seq' = id
           /\ call' = [op |-> "save_reminder", minutes |-> due_in_minutes,
                       id |-> id, due_at |-> due_at]
    /\ UNCHANGED <<clock, sched, cyc, claimsSupported,
                   markReliable, ledger, skipped>>

\* save_reminder that leaves due_in_minutes out of due_at
save_reminder_now(due_in_minutes, text) ==
    /\ sched = "running"
    /\ Cardinality(store) < MaxRows
    /\ clock + due_in_minutes * TicksPerUnit <= MaxTime
    /\ LET due_at == clock
           id     == seq + 1
       IN  /\ store' = store \cup
                 {[id |-> id, due_at_utc |-> isoformat(due_at), text |-> text,
                   conversation_ref |-> "ok", sent |-> 0]}
           /\ seq' = id
           /\ call' = [op |-> "save_reminder", minutes |-> due_in_minutes,
                       id |-> id, due_at |-> due_at]
    /\ UNCHANGED <<clock, sched, cyc, claimsSupported,
                   markReliable, ledger, skipped>>

\* save_reminder, called by the /remind handler while the app serves
\* requests; call keeps what it returned: (cur.lastrowid, due_at)
save_reminder(due_in_minutes, text) ==
    /\ sched = "running"
    /\ Cardinality(store) < MaxRows
    /\ clock + due_in_minutes * TicksPerUnit <= MaxTime
    /\ LET due_at == clock + due_in_minutes * TicksPerUnit
           id     == seq + 1
       IN  /\ store' = store \cup
                 {[id |-> id, due_at_utc |-> isoformat(due_at), text |-> text,
                   conversation_ref |-> "ok", sent |-> 0]}
           /\ seq' = id
           /\ call' = [op |-> "save_reminder", minutes |-> due_in_minutes,
                       id |-> id, due_at |-> due_at]
    /\ UNCHANGED <<clock, sched, cyc, claimsSupported,
                   markReliable, ledger, skipped>>

\* the interval trigger fires: the executor runs tick unless max_instances
\* instances of the job are running, in which case the run is skipped
TimerFire ==
    /\ sched = "running"
    /\ IF Cardinality(Executing) < MaxInstances
       THEN LET s == CHOOSE s \in Slots :
                        /\ cyc[s].pc = "idle"
                        /\ \A u \in Slots : cyc[u].pc = "idle" => s <= u
            IN  /\ cyc' = [cyc EXCEPT ![s] = [IdleCycle EXCEPT !.pc = "start"]]
                /\ UNCHANGED skipped
       ELSE /\ skipped' = TRUE
            /\ UNCHANGED cyc
    /\ UNCHANGED <<clock, store, seq, sched, claimsSupported,
                   markReliable, ledger, call>>

\* the loop body without its try/except: an undelivered reminder ends the loop
AdvanceAbort(c) ==
    [c EXCEPT !.pc = IF c.idx + 1 > Len(c.due) \/ ~c.delivered
                     THEN "returned" ELSE "loop",
              !.idx = c.idx + 1,
              !.tried = <<>>,
              !.delivered = FALSE,
              !.failed = IF c.delivered THEN @ ELSE @ \cup {c.due[c.idx].id}]

\* end of the loop body for due[idx]: the next reminder, or tick returns;
\* failed collects the reminders of this cycle that no convention delivered
Advance(c) ==
    [c EXCEPT !.pc = IF c.idx + 1 > Len(c.due) THEN "returned" ELSE "loop",
              !.idx = c.idx + 1,
              !.tried = <<>>,
              !.delivered = FALSE,
              !.failed = IF c.delivered THEN @ ELSE @ \cup {c.due[c.idx].id}]

\* tick with a handler that shuts the scheduler down when fetch_due raises
TickStartFatal(s) ==
    /\ cyc[s].pc = "start"
    /\ \E out \in fetch_due(store, clock) :
          /\ cyc' = [cyc EXCEPT ![s] =
                       [@ EXCEPT !.now = clock,
                                 !.snap = {r.id : r \in SelectDue(store, clock)},
                                 !.err = out.err,
                                 !.due = out.val,
                                 !.idx = 1,
                                 !.pc = IF out.kind = "raise" THEN "raised"
                                        ELSE IF out.val = <<>> THEN "returned"
                                        ELSE "loop"]]
          /\ sched' = IF out.kind = "raise" THEN "shutdown" ELSE sched
    /\ UNCHANGED <<clock, store, seq, claimsSupported,
                   markReliable, ledger, skipped, call>>

\* tick: capture now, fetch_due(now)
TickStart(s) ==
    /\ cyc[s].pc = "start"
    /\ \E out \in fetch_due(store, clock) :
          cyc' = [cyc EXCEPT ![s] =
                    [@ EXCEPT !.now = clock,
                              !.snap = {r.id : r \in SelectDue(store, clock)},
                              !.err = out.err,
                              !.due = out.val,
                              !.idx = 1,
                              !.pc = IF out.kind = "raise" THEN "raised"
                                     ELSE IF out.val = <<>> THEN "returned"
                                     ELSE "loop"]]
    /\ UNCHANGED <<clock, store, seq, sched, claimsSupported,
                   markReliable, ledger, skipped, call>>

\* a loop that takes any reminder left in the list next, not the first
BeginDispatchAny(s) ==
    /\ cyc[s].pc = "loop"
    /\ LET c == cyc[s]
       IN  \E j \in c.idx..Len(c.due) :
              cyc' = [cyc EXCEPT ![s] =
                        IF DictToConvRefOk(c.due[j].conversation_ref)
                        THEN [c EXCEPT !.pc = "A", !.idx = j]
                        ELSE Advance(c)]
    /\ UNCHANGED <<clock, store, seq, sched, claimsSupported,
                   markReliable, ledger, skipped, call>>

\* _send_proactive up to its first await: _dict_to_conv_ref, then the call
\* of convention A
BeginDispatch(s) ==
    /\ cyc[s].pc = "loop"
    /\ LET c == cyc[s]
           r == c.due[c.idx]
       IN  cyc' = [cyc EXCEPT ![s] =
                     IF DictToConvRefOk(r.conversation_ref)
                     THEN [c EXCEPT !.pc = "A"]
                     ELSE Advance(c)]
    /\ UNCHANGED <<clock, store, seq, sched, claimsSupported,
                   markReliable, ledger, skipped, call>>

\* the ledger after a convention delivered reminder id
Delivered(id) ==
    IF markReliable
    THEN [once  |-> ledger.once \cup {id},
          twice |-> IF id \in ledger.once THEN ledger.twice \cup {id}
                    ELSE ledger.twice]
    ELSE ledger

\* convention A without its return: convention B is called after it anyway
ConvAFallsThrough(s) ==
    /\ cyc[s].pc = "A"
    /\ LET c == cyc[s]
       IN  \/ /\ cyc' = [cyc EXCEPT ![s] = [c EXCEPT !.pc = "B",
                                                     !.tried = Append(@, "A"),
                                                     !.delivered = TRUE]]
              /\ ledger' = Delivered(c.due[c.idx].id)
           \/ /\ cyc' = [cyc EXCEPT ![s] = [c EXCEPT !.pc = "B",
                                                     !.tried = Append(@, "A")]]
              /\ UNCHANGED ledger
    /\ UNCHANGED <<clock, store, seq, sched, claimsSupported, markReliable,
                   skipped, call>>

\* convention A: adapter.continue_conversation(_callback, ref, app_id)
ConvA(s) ==
    /\ cyc[s].pc = "A"
    /\ LET c == cyc[s]
       IN  \/ /\ cyc' = [cyc EXCEPT ![s] = [c EXCEPT !.pc = "mark",
                                                     !.tried = Append(@, "A"),
                                                     !.delivered = TRUE]]
              /\ ledger' = Delivered(c.due[c.idx].id)
           \/ /\ cyc' = [cyc EXCEPT ![s] = [c EXCEPT !.pc = "B",
                                                     !.tried = Append(@, "A")]]
              /\ UNCHANGED ledger
    /\ UNCHANGED <<clock, store, seq, sched, claimsSupported, markReliable,
                   skipped, call>>

\* convention B: adapter.continue_conversation(ref, _callback, app_id)
ConvB(s) ==
    /\ cyc[s].pc = "B"
    /\ LET c == cyc[s]
       IN  \/ /\ cyc' = [cyc EXCEPT ![s] = [c EXCEPT !.pc = "mark",
                                                     !.tried = Append(@, "B"),
                                                     !.delivered = TRUE]]
              /\ ledger' = Delivered(c.due[c.idx].id)
           \/ /\ cyc' = [cyc EXCEPT ![s] = [c EXCEPT !.pc = "C",
                                                     !.tried = Append(@, "B")]]
              /\ UNCHANGED ledger
    /\ UNCHANGED <<clock, store, seq, sched, claimsSupported, markReliable,
                   skipped, call>>

\* a loop body that marks the reminder sent when convention C raises too
ConvCMarks(s) ==
    /\ cyc[s].pc = "C"
    /\ LET c == cyc[s]
       IN  IF ~claimsSupported
           THEN /\ cyc' = [cyc EXCEPT ![s] = [c EXCEPT !.pc = "mark"]]
                /\ UNCHANGED <<store, ledger>>
           ELSE \/ /\ cyc' = [cyc EXCEPT ![s] = [c EXCEPT !.pc = "mark",
                                                          !.tried = Append(@, "C"),
                                                          !.delivered = TRUE]]
                   /\ ledger' = Delivered(c.due[c.idx].id)
                   /\ UNCHANGED store
                \/ /\ cyc' = [cyc EXCEPT ![s] =
                                Advance([c EXCEPT !.tried = Append(@, "C")])]
                   /\ store' = {IF r.id = c.due[c.idx].id
                                THEN [r EXCEPT !.sent = 1] ELSE r : r \in store}
                   /\ UNCHANGED ledger
    /\ UNCHANGED <<clock, seq, sched, claimsSupported, markReliable, skipped,
                   call>>

\* convention C: continue_conversation_with_claims, when the adapter has it;
\* when it has not, the function falls off its end and returns None
ConvC(s) ==
    /\ cyc[s].pc = "C"
    /\ LET c == cyc[s]
       IN  IF ~claimsSupported
           THEN /\ cyc' = [cyc EXCEPT ![s] = [c EXCEPT !.pc = "mark"]]
                /\ UNCHANGED ledger
           ELSE \/ /\ cyc' = [cyc EXCEPT ![s] = [c EXCEPT !.pc = "mark",
                                                          !.tried = Append(@, "C"),
                                                          !.delivered = TRUE]]
                   /\ ledger' = Delivered(c.due[c.idx].id)
                \/ /\ cyc' = [cyc EXCEPT ![s] =
                                Advance([c EXCEPT !.tried = Append(@, "C")])]
                   /\ UNCHANGED ledger
    /\ UNCHANGED <<clock, store, seq, sched, claimsSupported, markReliable,
                   skipped, call>>

\* a loop body in which an sqlite3.Error of mark_sent ends tick
MarkSentAbort(s) ==
    /\ cyc[s].pc = "mark"
    /\ LET c == cyc[s]
       IN  \/ /\ store' = mark_sent(store, c.due[c.idx].id)
              /\ cyc' = [cyc EXCEPT ![s] = Advance(c)]
           \/ /\ ~markReliable
              /\ cyc' = [cyc EXCEPT ![s] = [c EXCEPT !.pc = "raised"]]
              /\ UNCHANGED store
    /\ UNCHANGED <<clock, seq, sched, claimsSupported, markReliable, ledger,
                   skipped, call>>

\* tick, line 189: mark_sent(r.id) after _send_proactive returned; an
\* sqlite3.Error, when the storage can fail, is caught by the except of the
\* loop body
MarkSent(s) ==
    /\ cyc[s].pc = "mark"
    /\ LET c == cyc[s]
       IN  \/ /\ store' = mark_sent(store, c.due[c.idx].id)
              /\ cyc' = [cyc EXCEPT ![s] = Advance(c)]
           \/ /\ ~markReliable
              /\ cyc' = [cyc EXCEPT ![s] = Advance(c)]
              /\ UNCHANGED store
    /\ UNCHANGED <<clock, seq, sched, claimsSupported,
                   markReliable, ledger, skipped, call>>

\* after scheduler.shutdown(wait=False) the task of a running instance is
\* either left to run on or cancelled at the await it is suspended on (the
\* executor's shutdown cancels its pending futures, and run_app cancels the
\* tasks of the loop after the cleanup handlers); CancelledError is not an
\* Exception, so neither _send_proactive nor tick catches it
Cancel(s) ==
    /\ sched = "shutdown"
    /\ cyc[s].pc \in {"start", "A", "B", "C"}
    /\ cyc' = [cyc EXCEPT ![s].pc = "cancelled"]
    /\ UNCHANGED <<clock, store, seq, sched, claimsSupported,
                   markReliable, ledger, skipped, call>>

\* the executor is done with the instance: tick returned, or it raised and
\* the executor logged the exception, or its task was cancelled
Release(s) ==
    /\ cyc[s].pc \in {"returned", "raised", "cancelled"}
    /\ cyc' = [cyc EXCEPT ![s] = IdleCycle]
    /\ skipped' = FALSE
    /\ UNCHANGED <<clock, store, seq, sched, claimsSupported,
                   markReliable, ledger, call>>

Next ==
    \/ AdvanceClock
    \/ OnStartup
    \/ OnCleanup
    \/ \E m \in 0..MaxMinutes, t \in Texts : save_reminder(m, t)
    \/ TimerFire
    \/ \E s \in Slots : TickStart(s)
    \/ \E s \in Slots : BeginDispatch(s)
    \/ \E s \in Slots : ConvA(s)
    \/ \E s \in Slots : ConvB(s)
    \/ \E s \in Slots : ConvC(s)
    \/ \E s \in Slots : MarkSent(s)
    \/ \E s \in Slots : Cancel(s)
    \/ \E s \in Slots : Release(s)

Spec == Init /\ [][Next]_vars

(* -------- the store functions called directly on any table ------------- *)
AllStores == Tables(MaxRows, Times, {0, 1})

\* the ids a caller passes: those of the table, and unknown ones
CallIds == 0..(MaxRows + 1)

InitStore ==
    /\ clock = 0
    /\ store \in AllStores
    /\ seq = Cardinality(store)
    /\ sched = "new"
    /\ cyc = [s \in Slots |-> IdleCycle]
    /\ claimsSupported = FALSE
    /\ markReliable = FALSE
    /\ ledger = NoDelivery
    /\ skipped = FALSE
    /\ call = NoCall

\* mark_sent(reminder_id)
CallMarkSent(id) ==
    /\ store' = mark_sent(store, id)
    /\ call' = [op |-> "mark_sent", arg |-> id, before |-> store]
    /\ UNCHANGED <<clock, seq, sched, cyc, claimsSupported,
                   markReliable, ledger, skipped>>

\* fetch_due(now)
CallFetchDue(now) ==
    /\ \E out \in fetch_due(store, now) :
          call' = [op |-> "fetch_due", arg |-> now, before |-> store,
                   result |-> out]
    /\ UNCHANGED <<clock, store, seq, sched, cyc, claimsSupported,
                   markReliable, ledger, skipped>>

NextStore ==
    \/ \E id \in CallIds : CallMarkSent(id)
    \/ \E now \in Times : CallFetchDue(now)

SpecStore == InitStore /\ [][NextStore]_vars

(* ------------------------------ properties ------------------------------ *)
Ids(q) == {q[i].id : i \in 1..Len(q)}

\* the ids fetch_due(now) is to return from table st: unsent and due, the
\* due time compared as a time, not as text
DueIds(st, now) ==
    {r.id : r \in {x \in st : x.sent = 0 /\ fromisoformat(x.due_at_utc) <= now}}

\* C1: a reminder of a cycle that no convention delivered is still in the
\* table with sent = 0, and every fetch_due at or after its due time that
\* returns has it.
AtLeastOnce ==
    \A s \in Slots : \A id \in cyc[s].failed :
        \E r \in store :
            /\ r.id = id
            /\ r.sent = 0
            /\ \A now \in Times : \A out \in fetch_due(store, now) :
                  (fromisoformat(r.due_at_utc) <= now /\ out.kind = "return")
                      => id \in Ids(out.val)

\* C2: _send_proactive returns normally (tick goes on to mark_sent) only
\* when one of its conventions delivered the message.
ReturnsOnlyAfterDelivery ==
    \A s \in Slots : cyc[s].pc = "mark" => cyc[s].delivered

\* C3: a row with sent = 1 stays in the table with every field as it is, in
\* every step, and no fetch_due(now), for any now, returns it.
SentIsFinal ==
    /\ [][\A r \in store : r.sent = 1 => r \in store']_vars
    /\ [](\A r \in store : r.sent = 1 =>
              \A now \in Times : \A out \in fetch_due(store, now) :
                  r.id \notin Ids(out.val))
    /\ [](\A s \in Slots : \A i \in 1..Len(cyc[s].due) : cyc[s].due[i].sent = 0)

\* a cycle that started after reminder r was marked has fetched without it
SentIsFinalWitness ==
    \E s \in Slots : \E r \in store :
        /\ cyc[s].pc \in {"loop", "A", "returned"}
        /\ r.sent = 1
        /\ fromisoformat(r.due_at_utc) <= cyc[s].now
        /\ r.id \notin cyc[s].snap

\* C4: a cycle whose fetch met no storage failure has attempted, when it
\* ends, every reminder that was due and unsent with a well-formed
\* destination at its fetch, whatever the destinations of the other due rows.
DecodeIsolation ==
    \A s \in Slots :
        (cyc[s].pc \in {"returned", "raised"} /\ cyc[s].err # "storage") =>
            \A r \in store :
                (r.id \in cyc[s].snap /\ r.conversation_ref = "ok")
                    => r.id \in Ids(cyc[s].due)

\* C5: at most one instance of tick executes, and a timer firing while an
\* instance executes changes neither the instances nor the table.
NonOverlap ==
    /\ [](Cardinality(Executing) <= 1)
    /\ [][(Executing # {} /\ TimerFire) =>
            UNCHANGED <<cyc, store, seq>>]_vars

\* a firing was skipped while the one instance executes
NonOverlapWitness ==
    /\ skipped
    /\ \E s \in Slots : cyc[s].pc \in {"loop", "A", "B", "C", "mark"}

\* C6: fetch_due(now), when it returns, returns exactly the rows with
\* sent = 0 and due_at <= now, each once; with no such row it returns the
\* empty list.
Visibility ==
    call.op = "fetch_due" =>
        /\ call.result.kind = "return" =>
              /\ Ids(call.result.val) = DueIds(call.before, call.arg)
              /\ Len(call.result.val) = Cardinality(DueIds(call.before, call.arg))
        /\ (DueIds(call.before, call.arg) = {} /\ call.result.err # "storage") =>
              /\ call.result.kind = "return"
              /\ call.result.val = <<>>

\* of two unsent rows fetch_due returned the one that was due and not the other
VisibilityWitness ==
    /\ call.op = "fetch_due"
    /\ call.result.kind = "return"
    /\ Len(call.result.val) = 1
    /\ \E r \in call.before : r.sent = 0 /\ fromisoformat(r.due_at_utc) > call.arg

\* C7: the list a cycle got from fetch_due is ascending in due_at, and rows
\* of equal due_at are in ascending id order.
FetchOrdering ==
    \A s \in Slots : \A i, j \in 1..Len(cyc[s].due) :
        i < j =>
            \/ cyc[s].due[i].due_at_utc < cyc[s].due[j].due_at_utc
            \/ /\ cyc[s].due[i].due_at_utc = cyc[s].due[j].due_at_utc
               /\ cyc[s].due[i].id < cyc[s].due[j].id

\* C8: after mark_sent(id) a second mark_sent(id) changes nothing, and
\* mark_sent of an id that is not in the table or is already sent leaves the
\* table as it was.
IdempotentCompletion ==
    call.op = "mark_sent" =>
        /\ mark_sent(store, call.arg) = store
        /\ (\A r \in call.before : r.id = call.arg => r.sent = 1)
              => store = call.before

\* mark_sent was called on a row that was already sent
IdempotentCompletionWitness ==
    /\ call.op = "mark_sent"
    /\ \E r \in call.before : r.id = call.arg /\ r.sent = 1
    /\ \E r \in call.before : r.sent = 0

\* C9: a step in which the dispatch of due[idx] raises an Exception leaves
\* the fetched list as it is and moves on to due[idx + 1], and tick returns
\* only after the whole list.
FailureIsolation ==
    /\ [][\A s \in Slots :
            (/\ cyc[s].pc \in {"loop", "C"}
             /\ cyc'[s] # cyc[s]
             /\ cyc'[s].pc \notin {"A", "mark", "cancelled"})
            => /\ cyc'[s].due = cyc[s].due
               /\ cyc'[s].idx = cyc[s].idx + 1
               /\ cyc'[s].pc = IF cyc[s].idx < Len(cyc[s].due) THEN "loop"
                               ELSE "returned"]_vars
    /\ [](\A s \in Slots :
            /\ cyc[s].pc = "returned" => cyc[s].idx = Len(cyc[s].due) + 1
            /\ cyc[s].pc \in {"loop", "A", "B", "C", "mark"}
                  => cyc[s].idx \in 1..Len(cyc[s].due)
            /\ cyc[s].failed # {} => cyc[s].pc # "raised")

\* the reminder after one whose dispatch failed is being dispatched
FailureIsolationWitness ==
    \E s \in Slots :
        /\ cyc[s].pc \in {"A", "B", "C", "mark"}
        /\ cyc[s].idx > 1
        /\ cyc[s].due[cyc[s].idx - 1].id \in cyc[s].failed

\* C10: a fetch_due that raises ends the cycle with nothing dispatched or
\* marked and the scheduler as it was; the instance is then released, and
\* with no instance executing a running scheduler starts a cycle at the next
\* timer firing.
FetchFailureAbortsCycleOnly ==
    /\ [][\A s \in Slots :
            (cyc[s].pc = "start" /\ cyc'[s].pc = "raised")
            => /\ cyc'[s].due = <<>>
               /\ UNCHANGED <<store, sched>>]_vars
    /\ [][\A s \in Slots :
            (cyc[s].pc = "raised" /\ cyc'[s] # cyc[s])
            => /\ cyc'[s] = IdleCycle
               /\ UNCHANGED <<store, sched>>]_vars
    /\ [](\A s \in Slots : cyc[s].pc = "raised" => ENABLED Release(s))
    /\ []((sched = "running" /\ Executing = {}) =>
             ENABLED (TimerFire /\ \E s \in Slots : cyc'[s].pc = "start"))

\* a fetch_due met a storage failure while reminders were due, and the
\* scheduler is running
FetchFailureWitness ==
    \E s \in Slots :
        /\ cyc[s].pc = "raised"
        /\ cyc[s].err = "storage"
        /\ cyc[s].snap # {}
        /\ sched = "running"

\* C11: the ids of the table are distinct and none is above the largest id
\* assigned; a step never removes an id from the table, and save_reminder
\* returns the id of the one row it adds, which is above every id assigned
\* before.
UniqueIncreasingIds ==
    /\ [](\A r1, r2 \in store : r1.id = r2.id => r1 = r2)
    /\ [](\A r \in store : r.id <= seq)
    /\ [][{r.id : r \in store} \subseteq {r.id : r \in store'}]_vars
    /\ [][(call' # call /\ call'.op = "save_reminder") =>
            /\ call'.id > seq
            /\ \A r \in store : call'.id > r.id
            /\ {r.id : r \in store'} = {r.id : r \in store} \cup {call'.id}
            /\ Cardinality(store') = Cardinality(store) + 1]_vars

\* a second save_reminder returned an id above the id of an earlier row
UniqueIncreasingIdsWitness ==
    /\ call.op = "save_reminder"
    /\ call.id = seq
    /\ \E r \in store : r.id < call.id /\ r.conversation_ref = "ok"

\* C12: save_reminder(due_in_minutes, text) at time t adds one row with
\* sent = 0 and due_at = t + due_in_minutes, returns its id and due_at, and
\* leaves the other rows as they are; with due_in_minutes = 0 every
\* fetch_due(t) that returns has the new row.
InsertPostcondition ==
    [][(call' # call /\ call'.op = "save_reminder") =>
        /\ call'.due_at = clock + call'.minutes * TicksPerUnit
        /\ \E r \in store' :
              /\ r \notin store
              /\ store' = store \cup {r}
              /\ r.id = call'.id
              /\ r.sent = 0
              /\ fromisoformat(r.due_at_utc) = call'.due_at
        /\ call'.minutes = 0 =>
              \A out \in fetch_due(store', clock) :
                  out.kind = "return" => call'.id \in Ids(out.val)]_vars

\* save_reminder with due_in_minutes = 1 added a row next to an earlier one
InsertPostconditionWitness ==
    /\ call.op = "save_reminder"
    /\ call.minutes = 1
    /\ Cardinality(store) = 2
    /\ \E r \in store : r.id = call.id /\ fromisoformat(r.due_at_utc) > clock

\* the scheduler goes from new to running to shut down and no other way; an
\* instance of tick starts only while it is running; the shutdown is possible
\* whatever the instances do and leaves them and the table as they are
StartStop ==
    /\ [][sched' # sched => \/ sched = "new" /\ sched' = "running"
                            \/ sched = "running" /\ sched' = "shutdown"]_vars
    /\ [][\A s \in Slots : (cyc[s].pc = "idle" /\ cyc'[s].pc # "idle")
                              => (sched = "running" /\ sched' = "running")]_vars
    /\ [][(sched = "running" /\ sched' = "shutdown")
            => UNCHANGED <<cyc, store>>]_vars
    /\ [](sched = "running" => ENABLED OnCleanup)

\* C13, as stated: Stopped -> Running -> Stopped only, no cycle starts before
\* start() or after stop(), stop() does not wait for a cycle in flight, and
\* it does not cancel it: no instance of tick is ever cancelled.
LifecycleNoCancel ==
    /\ StartStop
    /\ [](\A s \in Slots : cyc[s].pc # "cancelled")

\* C13, amended: as above, but a cycle in flight at stop() either goes on
\* (its next dispatch step or mark_sent stays possible) or is cancelled at an
\* await, and a cancelled cycle dispatches and marks nothing more.
Lifecycle ==
    /\ StartStop
    /\ [](\A s \in Slots : cyc[s].pc = "cancelled" => sched = "shutdown")
    /\ [](\A s \in Slots : (sched = "shutdown" /\ cyc[s].pc = "mark")
                               => ENABLED MarkSent(s))
    /\ [](\A s \in Slots : (sched = "shutdown" /\ cyc[s].pc = "A")
                               => ENABLED ConvA(s))
    /\ [][\A s \in Slots : (cyc[s].pc = "cancelled" /\ cyc'[s] # cyc[s])
                              => (cyc'[s] = IdleCycle /\ UNCHANGED store)]_vars

\* after the shutdown a cycle that was in flight has delivered its second
\* reminder and is about to mark it
LifecycleWitness ==
    /\ sched = "shutdown"
    /\ \E s \in Slots : cyc[s].pc = "mark" /\ cyc[s].delivered /\ cyc[s].idx = 2

\* C14: a reminder whose dispatch failed stays unsent for the cycles that
\* follow: a step turns sent from 0 to 1 only for the reminder a cycle is
\* about to mark, and only when the dispatch of that cycle delivered it.
RetryUntilSuccess ==
    [][\A r \in store :
          (r.sent = 0 /\ \E q \in store' : q.id = r.id /\ q.sent = 1)
          => \E s \in Slots :
                /\ cyc[s].pc = "mark"
                /\ cyc[s].due[cyc[s].idx].id = r.id
                /\ cyc[s].delivered]_vars

\* C15: sent turns from 0 to 1 only in the mark_sent step of a cycle, for
\* the reminder whose dispatch that cycle has just seen return without
\* raising; the steps of the dispatch leave the table as it is, whether they
\* end in a return or in an exception.
MarkOnlyAfterSuccess ==
    /\ [][\A r \in store :
            (r.sent = 0 /\ \E q \in store' : q.id = r.id /\ q.sent = 1)
            => \E s \in Slots :
                  /\ cyc[s].pc = "mark"
                  /\ cyc[s].due[cyc[s].idx].id = r.id
                  /\ cyc'[s] # cyc[s]
                  /\ store' = mark_sent(store, r.id)]_vars
    /\ [][\A s \in Slots :
            (cyc[s].pc \in {"loop", "A", "B", "C"} /\ cyc'[s] # cyc[s])
            => UNCHANGED store]_vars
    /\ [](\A s \in Slots :
            cyc[s].pc = "mark" =>
               \/ cyc[s].delivered /\ cyc[s].tried # <<>>
               \/ ~claimsSupported /\ cyc[s].tried = <<"A", "B">>)

\* a cycle is over in which one reminder was dispatched and marked and the
\* dispatch of another raised, which is still unsent
MarkOnlyAfterSuccessWitness ==
    \E s \in Slots : \E r1, r2 \in store :
        /\ cyc[s].pc = "returned"
        /\ r1.sent = 1 /\ r1.id \in Ids(cyc[s].due) \ cyc[s].failed
        /\ r2.sent = 0 /\ r2.id \in cyc[s].failed
        /\ claimsSupported

\* C16: in one call of the dispatch the conventions are tried in the order
\* A, B, C, each once at most: B is on only after A alone, C only after A and
\* B; once a convention has completed the call is over, and no step adds an
\* attempt after it.
ConventionOrder ==
    /\ [](\A s \in Slots :
            /\ cyc[s].tried \in {<<>>, <<"A">>, <<"A", "B">>, <<"A", "B", "C">>}
            /\ cyc[s].pc = "A" => cyc[s].tried = <<>>
            /\ cyc[s].pc = "B" => cyc[s].tried = <<"A">>
            /\ cyc[s].pc = "C" => cyc[s].tried = <<"A", "B">>
            /\ cyc[s].delivered => cyc[s].pc = "mark")
    /\ [][\A s \in Slots :
            /\ cyc[s].delivered => cyc'[s].tried \in {cyc[s].tried, <<>>}
            /\ Len(cyc'[s].tried) <= Len(cyc[s].tried) + 1]_vars

\* convention B delivered after convention A raised; C is not called
ConventionOrderWitness ==
    \E s \in Slots :
        cyc[s].pc = "mark" /\ cyc[s].delivered /\ cyc[s].tried = <<"A", "B">>

\* the step of slot s in which mark_sent raises: the cycle leaves its mark
\* step and the table is as before
MarkSentRaises(s) ==
    cyc[s].pc = "mark" /\ cyc'[s] # cyc[s] /\ store' = store

\* C17, as stated: when mark_sent raises after a dispatch the cycle is over,
\* no reminder left in its list is processed, and the reminder stays unsent.
MarkFailureAbortsCycle ==
    [][\A s \in Slots :
          MarkSentRaises(s) =>
             /\ cyc'[s].pc # "loop"
             /\ \A r \in store' :
                   r.id = cyc[s].due[cyc[s].idx].id => r.sent = 0]_vars

\* C17, amended: when mark_sent raises after a dispatch the reminder stays
\* unsent and the cycle goes on with the next reminder of its list, or
\* returns when there is none; the instance is then released.
MarkFailureIsolated ==
    /\ [][\A s \in Slots :
            MarkSentRaises(s) =>
               /\ \A r \in store' :
                     r.id = cyc[s].due[cyc[s].idx].id => r.sent = 0
               /\ cyc'[s].due = cyc[s].due
               /\ cyc'[s].idx = cyc[s].idx + 1
               /\ cyc'[s].pc = IF cyc[s].idx < Len(cyc[s].due) THEN "loop"
                               ELSE "returned"]_vars
    /\ [](\A s \in Slots : cyc[s].pc = "returned" => ENABLED Release(s))

\* the first reminder of a cycle was delivered and is still unsent, and the
\* cycle is at its second reminder
MarkFailureIsolatedWitness ==
    \E s \in Slots : \E r \in store :
        /\ cyc[s].pc \in {"loop", "A", "B", "C", "mark"}
        /\ cyc[s].idx = 2
        /\ r.id = cyc[s].due[1].id
        /\ r.sent = 0
        /\ r.conversation_ref = "ok"
        /\ r.id \notin cyc[s].failed

\* C18: a cycle works on one reminder at a time, in the order of the list
\* fetch_due returned: the list stays as fetched, a dispatch begins only
\* between reminders and for due[idx], nothing of the reminder before is
\* pending then, and idx moves by one, only in the step that ends the
\* dispatch, the mark_sent or the failure handling of due[idx].
SequentialDispatch ==
    /\ [][\A s \in Slots :
            /\ (cyc[s].pc \notin {"idle", "start"} /\ cyc'[s].pc # "idle")
                  => cyc'[s].due = cyc[s].due
            /\ (cyc'[s].pc = "A" /\ cyc[s].pc # "A")
                  => /\ cyc[s].pc = "loop"
                     /\ cyc'[s].idx = cyc[s].idx
            /\ (cyc[s].pc \notin {"idle", "start"} /\ cyc'[s].pc # "idle"
                   /\ cyc'[s].idx # cyc[s].idx)
                  => /\ cyc'[s].idx = cyc[s].idx + 1
                     /\ cyc[s].pc \in {"loop", "C", "mark"}
                     /\ cyc'[s].pc \in {"loop", "returned"}]_vars
    /\ [](\A s \in Slots :
            cyc[s].pc = "loop" => (cyc[s].tried = <<>> /\ ~cyc[s].delivered))

\* the first reminder of the list is marked sent and the dispatch of the
\* second has begun
SequentialDispatchWitness ==
    \E s \in Slots : \E r \in store :
        /\ cyc[s].pc = "A"
        /\ cyc[s].idx = 2
        /\ r.id = cyc[s].due[1].id
        /\ r.sent = 1

\* C19: when the storage never fails in mark_sent no reminder is delivered
\* twice, whatever the cycles, inserts and timer firings were: a reminder
\* under dispatch is unsent in the table, and the list of a cycle has no
\* reminder twice.
NoDuplicateDelivery ==
    /\ markReliable => ledger.twice = {}
    /\ \A s \in Slots :
          /\ cyc[s].pc \in {"A", "B", "C", "mark"} =>
                \A r \in store : r.id = cyc[s].due[cyc[s].idx].id => r.sent = 0
          /\ \A i, j \in 1..Len(cyc[s].due) :
                cyc[s].due[i].id = cyc[s].due[j].id => i = j

\* two reminders were delivered, one of them inserted by save_reminder, and
\* a later cycle fetched nothing
NoDuplicateDeliveryWitness ==
    /\ markReliable
    /\ Cardinality(ledger.once) = 2
    /\ call.op = "save_reminder"
    /\ \E s \in Slots : cyc[s].pc = "returned" /\ cyc[s].due = <<>>

\* C20: every reminder in the list of a cycle was due at the now the cycle
\* captured, which is not ahead of the clock, and was unsent in its fetch;
\* and a fetch_due of tick that returns has every row that is in the table,
\* unsent and due at that moment, the rows inserted during earlier cycles
\* included.
NoEarlyDelivery ==
    /\ [](\A s \in Slots :
            /\ cyc[s].now <= clock
            /\ \A i \in 1..Len(cyc[s].due) :
                  /\ cyc[s].due[i].due_at_utc <= cyc[s].now
                  /\ cyc[s].due[i].sent = 0)
    /\ [][\A s \in Slots :
            (cyc[s].pc = "start" /\ cyc'[s].pc \in {"loop", "returned"})
            => /\ cyc'[s].now = clock
               /\ \A r \in store :
                     (r.sent = 0 /\ fromisoformat(r.due_at_utc) <= clock)
                     => r.id \in Ids(cyc'[s].due)]_vars

\* a reminder saved with a delay while an earlier row was still to be sent is
\* in the list of a later cycle, which is dispatching
NoEarlyDeliveryWitness ==
    \E s \in Slots : \E r \in store :
        /\ cyc[s].pc \in {"A", "B", "C", "mark"}
        /\ call.op = "save_reminder"
        /\ call.minutes = 1
        /\ cyc[s].due[cyc[s].idx].id = call.id
        /\ r.id < call.id
        /\ r.sent = 1

====
